---- MODULE Spec2Model ----
(***************************************************************************)
(* medstock-wise: the three edge functions (run-predictions,               *)
(* calculate-cost-optimization, seed-sample-data) over the record store.   *)
(*                                                                         *)
(* Every `await supabase...` of a handler is one atomic step, so requests  *)
(* interleave at exactly the store round trips.  Tables are sets of rows;  *)
(* a row carries the request that wrote it (rid) in place of the primary   *)
(* key the store generates, so two inserts never collapse into one row.    *)
(* Money (unit_cost) is kept in cents.                                     *)
(***************************************************************************)
EXTENDS Integers, Sequences, FiniteSets, TLC

(* ------------------------------ bounds -------------------------------- *)
\* requests the model lets arrive (each may run concurrently with the others)
MaxRequests == 2
\* transient store faults the model may inject over a behaviour
MaxFaults == 1
\* rows of the inventory table before the first request
MaxInitItems == 2
\* entries of the seeder's catalogue that the model seeds (its last ones)
SeedItems == 2

Requests == 1..MaxRequests

(* ------------------------------ helpers ------------------------------- *)
Max(a, b) == IF a >= b THEN a ELSE b

SetMax(S) == CHOOSE x \in S : \A y \in S : y <= x

Range(s) == {s[i] : i \in 1..Len(s)}

RECURSIVE SeqOfSet(_)
\* the rows of a result set in ascending id order
SeqOfSet(S) ==
  IF S = {} THEN <<>>
  ELSE LET m == CHOOSE x \in S : \A y \in S : x.id <= y.id
       IN <<m>> \o SeqOfSet(S \ {m})

(* ------------------------------ schema -------------------------------- *)
\* unique indexes of the migrations: none on inventory_items.item_name,
\* model_registry.model_version or predictions.item_id
MigratedUnique == {}

\* the conflict targets the seeder's three upserts name
ConflictTargets == {"inventory_items.item_name", "model_registry.model_version",
                    "predictions.item_id"}

\* item_type values the inventory_items check constraint admits
ItemTypes == {"Equipment", "Consumable"}

\* the database as the migrations build it
Migrated == [unique |-> MigratedUnique, item_types |-> ItemTypes]

\* the database the seeder's statements presuppose: a unique index behind every
\* conflict target, and the catalogue's item_type values admitted
Presumed ==
  [unique |-> ConflictTargets,
   item_types |-> ItemTypes \cup {"PPE", "Medical Supplies"}]

(* ------------------------------ inputs -------------------------------- *)
Item(id, name, type, stock, minreq, cap, cost, usage, lead) ==
  [id |-> id, item_name |-> name, item_type |-> type, current_stock |-> stock,
   min_required |-> minreq, max_capacity |-> cap, unit_cost |-> cost,
   avg_usage_per_day |-> usage, restock_lead_time |-> lead]

\* rows the inventory may hold before the first request (inserted through the
\* inventory page); stock percentages 5, 10, 19.5, 20 and 90, a zero minimum,
\* and a row that bears a catalogue name
SampleItems ==
  { Item(1, "Gauze",        "Consumable", 10,  200, 400, 250,    5, 4),
    Item(2, "Catheter",     "Consumable", 20,  200, 400, 1200,   0, 7),
    Item(3, "Scalpel",      "Equipment",  39,  200, 0,   0,      3, 0),
    Item(4, "Stethoscope",  "Equipment",  40,  200, 300, 9900,   2, 9),
    Item(5, "Oxygen Tanks", "Equipment",  90,  200, 500, 850000, 8, 20),
    Item(6, "Tongue Blade", "Consumable", 0,   0,   100, 10,     6, 2),
    Item(7, "Swab",         "Consumable", 7,   0,   100, 15,     1, 1) }

InitInventories == {S \in SUBSET SampleItems : Cardinality(S) <= MaxInitItems}

\* the seeder's catalogue, in source order
inventoryItems ==
  << Item(0, "Ventilator",      "Equipment",        2487, 656, 3556, 583229,  55,  12),
     Item(0, "Surgical Mask",   "PPE",              2371, 384, 5562, 1606298, 470, 6),
     Item(0, "IV Drip",         "Medical Supplies", 2410, 338, 1013, 1542653, 158, 12),
     Item(0, "Surgical Gloves", "PPE",              1542, 264, 1018, 446755,  108, 17),
     Item(0, "Syringes",        "Medical Supplies", 2038, 438, 1131, 74410,   207, 15),
     Item(0, "Bandages",        "Medical Supplies", 1850, 500, 2500, 12550,   95,  10),
     Item(0, "X-Ray Film",      "Equipment",        320,  150, 800,  235000,  12,  14),
     Item(0, "Oxygen Tanks",    "Equipment",        180,  200, 500,  850000,  8,   20) >>

\* the part of the catalogue the model seeds
Catalogue ==
  LET n == Len(inventoryItems)
      k == IF SeedItems < n THEN SeedItems ELSE n
  IN SubSeq(inventoryItems, n - k + 1, n)

Model(id, version, active, created) ==
  [id |-> id, model_version |-> version, is_active |-> active, created_at |-> created]

\* the row the migration inserts
InitialModel == Model(1, "v1.0.0", TRUE, 1)

\* registries the handlers may meet: as migrated; with a later active version;
\* with two active versions created at the same instant; with none active; empty
InitRegistries ==
  { {InitialModel},
    {InitialModel, Model(2, "v2.0.0", TRUE, 2)},
    {InitialModel, Model(2, "v2.0.0", TRUE, 2), Model(3, "v2.0.1", TRUE, 2)},
    {Model(1, "v1.0.0", FALSE, 1)},
    {} }

Headers == {"none", "invalid", "valid"}

\* the user the identity provider resolves a valid token to
UserId == "u1"

\* the ad-hoc fields a demo request supplies (single_prediction)
DemoInputs ==
  { [item_name |-> "Demo Mask", item_type |-> "PPE", current_stock |-> 500,
     min_required |-> 200, max_capacity |-> 1000, avg_usage_per_day |-> 50,
     restock_lead_time |-> 7, unit_cost |-> 250] }

\* an item_id that matches no row (row ids are handed out from 1 upwards)
UnknownId == Cardinality(SampleItems) + Len(inventoryItems) + 1

(* ----------------------------- numbers -------------------------------- *)
\* an IEEE double that is a ratio of integers, +Infinity or NaN
Fin(n, d) == [kind |-> "fin", num |-> n, den |-> d]
Infinity == [kind |-> "inf", num |-> 1, den |-> 0]
NaN == [kind |-> "nan", num |-> 0, den |-> 0]

\* n / d as JavaScript divides non-negative numbers
Div(n, d) ==
  IF d # 0 THEN Fin(n, d) ELSE IF n = 0 THEN NaN ELSE Infinity

\* x < k for an integer k (false for NaN and for +Infinity)
LessThan(x, k) == x.kind = "fin" /\ x.num < k * x.den

(* --------------------------- Demand Estimator ------------------------- *)
\* x || 1
OrOne(x) == IF x = 0 THEN 1 ELSE x

\* an estimator whose shortfall is the signed difference
predictDemandSigned(item) ==
  [estimated_demand |-> item.avg_usage_per_day * item.restock_lead_time,
   inventory_shortfall |-> item.min_required - item.current_stock,
   replenishment_needs |->
     Max(0, item.avg_usage_per_day * item.restock_lead_time - item.current_stock),
   feature_contributions |->
     [avg_usage_per_day |->
        Fin(item.avg_usage_per_day * 4,
            OrOne(item.avg_usage_per_day * item.restock_lead_time) * 10),
      restock_lead_time |->
        Fin(item.restock_lead_time * 3,
            OrOne(item.avg_usage_per_day * item.restock_lead_time) * 10),
      current_stock     |-> Fin(item.current_stock * 15, OrOne(item.max_capacity) * 100),
      min_required      |-> Fin(item.min_required * 15, OrOne(item.max_capacity) * 100)]]

\* an estimator whose replenishment need is measured against min_required
predictDemandAgainstMinimum(item) ==
  [estimated_demand |-> item.avg_usage_per_day * item.restock_lead_time,
   inventory_shortfall |-> Max(0, item.min_required - item.current_stock),
   replenishment_needs |->
     Max(0, item.avg_usage_per_day * item.restock_lead_time - item.min_required),
   feature_contributions |->
     [avg_usage_per_day |->
        Fin(item.avg_usage_per_day * 4,
            OrOne(item.avg_usage_per_day * item.restock_lead_time) * 10),
      restock_lead_time |->
        Fin(item.restock_lead_time * 3,
            OrOne(item.avg_usage_per_day * item.restock_lead_time) * 10),
      current_stock     |-> Fin(item.current_stock * 15, OrOne(item.max_capacity) * 100),
      min_required      |-> Fin(item.min_required * 15, OrOne(item.max_capacity) * 100)]]

\* an estimator that divides by the bare denominators
predictDemandUnguarded(item) ==
  [estimated_demand |-> item.avg_usage_per_day * item.restock_lead_time,
   inventory_shortfall |-> Max(0, item.min_required - item.current_stock),
   replenishment_needs |->
     Max(0, item.avg_usage_per_day * item.restock_lead_time - item.current_stock),
   feature_contributions |->
     [avg_usage_per_day |-> Div(item.avg_usage_per_day * 4,
                                item.avg_usage_per_day * item.restock_lead_time * 10),
      restock_lead_time |-> Div(item.restock_lead_time * 3,
                                item.avg_usage_per_day * item.restock_lead_time * 10),
      current_stock     |-> Div(item.current_stock * 15, item.max_capacity * 100),
      min_required      |-> Div(item.min_required * 15, item.max_capacity * 100)]]

\* an estimator that leaves the lead time out of the demand
predictDemandPerDay(item) ==
  [estimated_demand |-> item.avg_usage_per_day,
   inventory_shortfall |-> Max(0, item.min_required - item.current_stock),
   replenishment_needs |-> Max(0, item.avg_usage_per_day - item.current_stock),
   feature_contributions |->
     [avg_usage_per_day |-> Fin(4, 10), restock_lead_time |-> Fin(3, 10),
      current_stock     |-> Fin(item.current_stock * 15, OrOne(item.max_capacity) * 100),
      min_required      |-> Fin(item.min_required * 15, OrOne(item.max_capacity) * 100)]]

predictDemand(item) ==
  LET estimated_demand == item.avg_usage_per_day * item.restock_lead_time
      inventory_shortfall == Max(0, item.min_required - item.current_stock)
      replenishment_needs == Max(0, estimated_demand - item.current_stock)
      feature_contributions ==
        [avg_usage_per_day |-> Fin(item.avg_usage_per_day * 4, OrOne(estimated_demand) * 10),
         restock_lead_time |-> Fin(item.restock_lead_time * 3, OrOne(estimated_demand) * 10),
         current_stock     |-> Fin(item.current_stock * 15, OrOne(item.max_capacity) * 100),
         min_required      |-> Fin(item.min_required * 15, OrOne(item.max_capacity) * 100)]
  IN [estimated_demand |-> estimated_demand,
      inventory_shortfall |-> inventory_shortfall,
      replenishment_needs |-> replenishment_needs,
      feature_contributions |-> feature_contributions]

(* ---------------------------- Alert Generator ------------------------- *)
\* a percentage that reads an item without a minimum as 0 %
stockPercentageOrZero(item) ==
  IF item.min_required = 0 THEN Fin(0, 1)
  ELSE Div(item.current_stock * 100, item.min_required)

\* line 180: (current_stock / min_required) * 100
stockPercentage(item) == Div(item.current_stock * 100, item.min_required)

CriticalThreshold == 10
WarningThreshold == 20

Alert(type, severity, item, prediction) ==
  [alert_type |-> type, severity |-> severity, item_id |-> item.id,
   metadata |-> [current_stock |-> item.current_stock,
                 min_required |-> item.min_required,
                 predicted_demand |-> prediction.estimated_demand]]

\* a classifier whose critical band takes in its bound
GenerateAlertsInclusive(item, prediction) ==
  LET pct == stockPercentage(item)
      atBound == pct.kind = "fin" /\ pct.num = CriticalThreshold * pct.den
  IN IF LessThan(pct, CriticalThreshold) \/ atBound
     THEN <<Alert("critical_stock", "critical", item, prediction)>>
     ELSE IF LessThan(pct, WarningThreshold)
          THEN <<Alert("low_stock", "warning", item, prediction)>>
          ELSE <<>>

\* a classifier that has lost its warning band
GenerateAlertsNoWarning(item, prediction) ==
  IF LessThan(stockPercentage(item), CriticalThreshold)
  THEN <<Alert("critical_stock", "critical", item, prediction)>>
  ELSE <<>>

\* the alerts one processed item adds to the request's batch
GenerateAlerts(item, prediction) ==
  IF LessThan(stockPercentage(item), CriticalThreshold)
  THEN <<Alert("critical_stock", "critical", item, prediction)>>
  ELSE IF LessThan(stockPercentage(item), WarningThreshold)
       THEN <<Alert("low_stock", "warning", item, prediction)>>
       ELSE <<>>

(* ------------------------------- state -------------------------------- *)
VARIABLES
  schema,              \* constraints the database enforces
  inventory_items,     \* table rows
  model_registry,
  predictions,
  prediction_history,
  alerts_history,
  cost_optimization,
  req,                 \* per request: position in its handler and its locals
  faults               \* transient store faults injected so far

tables == <<inventory_items, model_registry, predictions, prediction_history,
            alerts_history, cost_optimization>>
vars == <<schema, tables, req, faults>>

NoBody == [run_all |-> FALSE, item_id |-> 0, single_prediction |-> <<>>]

\* a request that has not arrived.  Three fields only observe it: log lists the
\* write statements of the request the store has applied (table, item), reads
\* the tables it has queried, faulted the tables on which a call of the request
\* met a transient fault
NewRequest ==
  [pc |-> "idle", fn |-> "", method |-> "", hdr |-> "none", user |-> "",
   body |-> NoBody, activeModel |-> <<>>, items |-> <<>>, idx |-> 0,
   predictions |-> <<>>, alerts |-> <<>>, optimizations |-> <<>>,
   insertedItems |-> <<>>, modelData |-> <<>>, response |-> <<>>,
   log |-> <<>>, reads |-> <<>>, faulted |-> <<>>]

Response(status) ==
  [status |-> status, error |-> "", success |-> (status = 200),
   predictions |-> <<>>, alerts_generated |-> 0, model_version |-> "",
   demo |-> <<>>, optimizations |-> <<>>, total_items |-> 0, stats |-> <<>>]

\* a catch block that answers authentication failures with 401
FailureByKind(message) ==
  [Response(IF message \in {"Unauthorized", "Missing authorization header"}
            THEN 401 ELSE 500) EXCEPT !.error = message, !.success = FALSE]

\* the catch block: {error: message}, status 500
Failure(message) == [Response(500) EXCEPT !.error = message, !.success = FALSE]

\* the message of an error object the store returned
StoreError == "store error"

Respond(q, response) == [q EXCEPT !.pc = "done", !.response = <<response>>]

\* whether this store call meets a transient fault
FaultChoices == IF faults < MaxFaults THEN BOOLEAN ELSE {FALSE}
Inject(fault) == faults' = IF fault THEN faults + 1 ELSE faults
Hit(q, fault, table) == IF fault THEN [q EXCEPT !.faulted = Append(@, table)] ELSE q

EmptyDerived ==
  /\ predictions = {}
  /\ prediction_history = {}
  /\ alerts_history = {}
  /\ cost_optimization = {}
  /\ faults = 0

\* one request, over every inventory and registry of the samples
Init ==
  /\ schema \in {Migrated, Presumed}
  /\ inventory_items \in InitInventories
  /\ model_registry \in InitRegistries
  /\ EmptyDerived
  /\ req = [r \in Requests |-> IF r = 1 THEN NewRequest
                                         ELSE [NewRequest EXCEPT !.pc = "off"]]

\* MaxRequests concurrent requests, over a critically low item, an item that
\* bears a catalogue name, and the registry with or without the migration's row
InitConcurrent ==
  /\ schema \in {Migrated, Presumed}
  /\ inventory_items \in SUBSET {x \in SampleItems : x.item_name \in {"Gauze", "Oxygen Tanks"}}
  /\ Cardinality(inventory_items) <= MaxInitItems
  /\ model_registry \in {{InitialModel}, {}}
  /\ EmptyDerived
  /\ req = [r \in Requests |-> NewRequest]

\* requests are numbered in their order of arrival
Arrives(r) ==
  /\ req[r].pc = "idle"
  /\ \A s \in 1..(r - 1) : req[s].pc # "idle"

(* ------------------------- CORS pre-flight ---------------------------- *)
Preflight(r) ==
  /\ Arrives(r)
  /\ \E fn \in {"run-predictions", "calculate-cost-optimization", "seed-sample-data"} :
       req' = [req EXCEPT ![r] =
                 Respond([@ EXCEPT !.fn = fn, !.method = "OPTIONS"], Response(200))]
  /\ UNCHANGED <<schema, tables, faults>>

(* --------------------------- authentication --------------------------- *)
\* lines 79-91 of run-predictions, 65-77 of calculate-cost-optimization
Authenticate(q, fn, hdr, body, next) ==
  LET a == [q EXCEPT !.fn = fn, !.method = "POST", !.hdr = hdr]
  IN IF hdr = "none" THEN Respond(a, Failure("Missing authorization header"))
     ELSE IF hdr = "invalid" THEN Respond(a, Failure("Unauthorized"))
     ELSE [a EXCEPT !.user = UserId, !.body = body, !.pc = next]

(* ---------------------------- run-predictions ------------------------- *)
PredictionInputs ==
  [run_all : BOOLEAN,
   item_id : {0, UnknownId} \cup {i.id : i \in inventory_items},
   single_prediction : {<<>>} \cup {<<d>> : d \in DemoInputs}]

RunPredictionsAuth(r) ==
  /\ Arrives(r)
  /\ \E hdr \in Headers, body \in PredictionInputs :
       req' = [req EXCEPT ![r] =
                 Authenticate(@, "run-predictions", hdr, body, "rp_model")]
  /\ UNCHANGED <<schema, tables, faults>>

\* a lookup that has lost its is_active filter
ActiveModelsAny ==
  {m \in model_registry : \A n \in model_registry : n.created_at <= m.created_at}

\* a lookup that orders ascending
ActiveModelsOldest ==
  LET active == {m \in model_registry : m.is_active}
  IN {m \in active : \A n \in active : m.created_at <= n.created_at}

\* the rows of .eq('is_active', true).order('created_at', desc).limit(1): one of
\* the newest active rows (which one, among equal timestamps, is the store's choice)
ActiveModels ==
  LET active == {m \in model_registry : m.is_active}
  IN {m \in active : \A n \in active : n.created_at <= m.created_at}

\* a demo test that run_all overrides
DemoModeUnlessRunAll(body) == body.single_prediction # <<>> /\ ~body.run_all

\* line 108: if (single_prediction)
DemoMode(body) == body.single_prediction # <<>>

RunPredictionsModel(r) ==
  /\ req[r].pc = "rp_model"
  /\ \E fault \in FaultChoices :
       LET q == Hit([req[r] EXCEPT !.reads = Append(@, "model_registry")],
                    fault, "model_registry")
       IN /\ Inject(fault)
          /\ IF fault \/ ActiveModels = {}
             THEN req' = [req EXCEPT ![r] = Respond(q, Failure("No active model found"))]
             ELSE \E activeModel \in ActiveModels :
                    IF DemoMode(q.body)
                    THEN req' = [req EXCEPT ![r] =
                           Respond([q EXCEPT !.activeModel = <<activeModel>>],
                                   [Response(200) EXCEPT
                                      !.demo = <<predictDemand(q.body.single_prediction[1])>>,
                                      !.model_version = activeModel.model_version])]
                    ELSE req' = [req EXCEPT ![r] =
                           [q EXCEPT !.activeModel = <<activeModel>>, !.pc = "rp_items"]]
  /\ UNCHANGED <<schema, tables>>

\* an item query that has lost its id filter
SelectItemsAll(body) == inventory_items

\* an item query that filters on item_id whatever run_all says
SelectItemsById(body) ==
  IF body.item_id # 0
  THEN {i \in inventory_items : i.id = body.item_id}
  ELSE inventory_items

\* the rows the item query selects (lines 128-131, and 80-83 of the optimizer)
SelectItems(body) ==
  IF ~body.run_all /\ body.item_id # 0
  THEN {i \in inventory_items : i.id = body.item_id}
  ELSE inventory_items

\* a loop that inserts the alerts as soon as there is one
AfterItemFlushEarly(q) ==
  IF Len(q.alerts) > 0 THEN [q EXCEPT !.pc = "rp_alerts"]
  ELSE IF q.idx <= Len(q.items) THEN [q EXCEPT !.pc = "rp_insert"]
  ELSE Respond(q, [Response(200) EXCEPT
                     !.predictions = q.predictions,
                     !.alerts_generated = Len(q.alerts),
                     !.model_version = q.activeModel[1].model_version])

\* where the loop of run-predictions stands once an item is dealt with: the
\* next item, the batch insert of the alerts, or (no alert) the response
AfterItem(q) ==
  IF q.idx <= Len(q.items) THEN [q EXCEPT !.pc = "rp_insert"]
  ELSE IF Len(q.alerts) > 0 THEN [q EXCEPT !.pc = "rp_alerts"]
  ELSE Respond(q, [Response(200) EXCEPT
                     !.predictions = q.predictions,
                     !.alerts_generated = Len(q.alerts),
                     !.model_version = q.activeModel[1].model_version])

RunPredictionsItems(r) ==
  /\ req[r].pc = "rp_items"
  /\ \E fault \in FaultChoices :
       LET q == Hit([req[r] EXCEPT !.reads = Append(@, "inventory_items")],
                    fault, "inventory_items")
           items == SeqOfSet(SelectItems(q.body))
       IN /\ Inject(fault)
          /\ req' = [req EXCEPT ![r] =
                IF fault \/ Len(items) = 0
                THEN Respond(q, Failure("No items found"))
                ELSE [q EXCEPT !.items = items, !.idx = 1, !.pc = "rp_insert"]]
  /\ UNCHANGED <<schema, tables>>

PredictionRow(r, item, prediction, user) ==
  [rid |-> r, item_id |-> item.id,
   estimated_demand |-> prediction.estimated_demand,
   replenishment_needs |-> prediction.replenishment_needs,
   inventory_shortfall |-> prediction.inventory_shortfall,
   predicted_by |-> user]

\* an insert into predictions is refused where a unique index on item_id is in
\* force and the item already has a row
PredictionConflict(item_id) ==
  /\ "predictions.item_id" \in schema.unique
  /\ \E p \in predictions : p.item_id = item_id

\* a loop that gives up at the first insert the store refuses
SkipItemAbort(q) == Respond(q, Failure(StoreError))

\* line 157 not taken: the item is passed over
SkipItem(q) == AfterItem([q EXCEPT !.idx = @ + 1])

RunPredictionsInsert(r) ==
  /\ req[r].pc = "rp_insert"
  /\ \E fault \in FaultChoices :
       LET q == Hit(req[r], fault, "predictions")
           item == q.items[q.idx]
           prediction == predictDemand(item)
       IN /\ Inject(fault)
          /\ IF fault \/ PredictionConflict(item.id)
             THEN /\ req' = [req EXCEPT ![r] = SkipItem(q)]
                  /\ UNCHANGED predictions
             ELSE /\ predictions' = predictions \cup {PredictionRow(r, item, prediction, q.user)}
                  /\ req' = [req EXCEPT ![r] =
                               [q EXCEPT !.pc = "rp_history",
                                         !.log = Append(@, <<"predictions", item.id>>)]]
  /\ UNCHANGED <<schema, inventory_items, model_registry, prediction_history,
                    alerts_history, cost_optimization>>

\* a history row keyed on its item alone
HistoryRowKeyed(r, item, prediction, model, user) ==
  [rid |-> 0, item_id |-> item.id, model_version_id |-> model.id,
   predicted_demand |-> prediction.estimated_demand,
   feature_values |-> [current_stock |-> item.current_stock,
                       min_required |-> item.min_required,
                       avg_usage_per_day |-> item.avg_usage_per_day,
                       restock_lead_time |-> item.restock_lead_time],
   feature_contributions |-> prediction.feature_contributions,
   created_by |-> user]

HistoryRow(r, item, prediction, model, user) ==
  [rid |-> r, item_id |-> item.id, model_version_id |-> model.id,
   predicted_demand |-> prediction.estimated_demand,
   feature_values |-> [current_stock |-> item.current_stock,
                       min_required |-> item.min_required,
                       avg_usage_per_day |-> item.avg_usage_per_day,
                       restock_lead_time |-> item.restock_lead_time],
   feature_contributions |-> prediction.feature_contributions,
   created_by |-> user]

Prediction(item, prediction) ==
  [item_id |-> item.id,
   estimated_demand |-> prediction.estimated_demand,
   inventory_shortfall |-> prediction.inventory_shortfall,
   replenishment_needs |-> prediction.replenishment_needs,
   feature_contributions |-> prediction.feature_contributions]

\* lines 157-209: the history insert (its error is not read), then the
\* response entry and the alert of the item
RunPredictionsHistory(r) ==
  /\ req[r].pc = "rp_history"
  /\ \E fault \in FaultChoices :
       LET q == Hit(req[r], fault, "prediction_history")
           item == q.items[q.idx]
           prediction == predictDemand(item)
       IN /\ Inject(fault)
          /\ prediction_history' =
               IF fault THEN prediction_history
               ELSE prediction_history \cup
                      {HistoryRow(r, item, prediction, q.activeModel[1], q.user)}
          /\ req' = [req EXCEPT ![r] =
               AfterItem([q EXCEPT
                  !.predictions = Append(@, Prediction(item, prediction)),
                  !.alerts = @ \o GenerateAlerts(item, prediction),
                  !.idx = @ + 1,
                  !.log = IF fault THEN @
                          ELSE Append(@, <<"prediction_history", item.id>>)])]
  /\ UNCHANGED <<schema, inventory_items, model_registry, predictions,
                 alerts_history, cost_optimization>>

AlertRow(r, alert) ==
  [rid |-> r, alert_type |-> alert.alert_type, severity |-> alert.severity,
   item_id |-> alert.item_id, metadata |-> alert.metadata]

\* lines 212-230: the batch insert of the alerts (its error is not read) and
\* the response
RunPredictionsAlerts(r) ==
  /\ req[r].pc = "rp_alerts"
  /\ \E fault \in FaultChoices :
       LET q == Hit(req[r], fault, "alerts_history")
       IN /\ Inject(fault)
          /\ alerts_history' =
               IF fault THEN alerts_history
               ELSE alerts_history \cup {AlertRow(r, q.alerts[k]) : k \in 1..Len(q.alerts)}
          /\ req' = [req EXCEPT ![r] =
               Respond([q EXCEPT !.log = IF fault THEN @
                                         ELSE Append(@, <<"alerts_history", 0>>)],
                       [Response(200) EXCEPT
                          !.predictions = q.predictions,
                          !.alerts_generated = Len(q.alerts),
                          !.model_version = q.activeModel[1].model_version])]
  /\ UNCHANGED <<schema, inventory_items, model_registry, predictions,
                 prediction_history, cost_optimization>>

(* ---------------------------- Cost Optimizer -------------------------- *)
RECURSIVE LeastRoot(_, _, _)
\* the least n in lo..hi with n * n >= y
LeastRoot(lo, hi, y) ==
  IF lo >= hi THEN lo
  ELSE LET mid == (lo + hi) \div 2
       IN IF mid * mid >= y THEN LeastRoot(lo, mid, y) ELSE LeastRoot(mid + 1, hi, y)

\* Math.ceil(Math.sqrt(y)) and Math.floor(Math.sqrt(y)) of an integer y >= 0
CeilRoot(y) == LeastRoot(0, 46340, y)
FloorRoot(y) == IF CeilRoot(y) * CeilRoot(y) = y THEN CeilRoot(y) ELSE CeilRoot(y) - 1

CeilDiv(n, d) == (n + d - 1) \div d

orderingCost == 50
\* holdingCostRate = 0.25, in hundredths
holdingCostRate == 25

\* item.unit_cost * holdingCostRate, in ten-thousandths of a currency unit
holdingCostPerUnit(item) == item.unit_cost * holdingCostRate

\* quotient and remainder of ten times (qr.q + qr.r / d)
TimesTen(qr, d) == [q |-> qr.q * 10 + (qr.r * 10) \div d, r |-> (qr.r * 10) % d]

\* Math.ceil(calculateEOQ(...)): the root of 2 * annualDemand * orderingCost /
\* holdingCostPerUnit, rounded up; a zero holding cost divides by zero
calculateEOQ(annualDemand, ordering, holding) ==
  IF holding = 0
  THEN (IF annualDemand = 0 THEN NaN ELSE Infinity)
  ELSE LET x == 2 * annualDemand * ordering
           qr == TimesTen(TimesTen(TimesTen(TimesTen(
                   [q |-> x \div holding, r |-> x % holding], holding), holding), holding), holding)
       IN Fin(CeilRoot(IF qr.r > 0 THEN qr.q + 1 ELSE qr.q), 1)

\* a safety stock that leaves the lead time out
SafetyStockSquaredNoLeadTime(dailyDemand, leadTime) ==
  (33 * dailyDemand) * (33 * dailyDemand)

\* the square of 100 * calculateSafetyStock(dailyDemand, leadTime):
\* serviceLevel 1.65 times demandStdDev (0.2 of the daily demand) is 0.33
SafetyStockSquared(dailyDemand, leadTime) ==
  (33 * dailyDemand) * (33 * dailyDemand) * leadTime

\* Math.ceil(calculateSafetyStock(dailyDemand, leadTime))
calculateSafetyStock(dailyDemand, leadTime) ==
  CeilDiv(CeilRoot(SafetyStockSquared(dailyDemand, leadTime)), 100)

\* Math.ceil(calculateReorderPoint(dailyDemand, leadTime, safetyStock))
calculateReorderPoint(dailyDemand, leadTime, safetyStock) ==
  dailyDemand * leadTime + safetyStock

\* Math.min(x, n) for an integer n
MinNum(x, n) ==
  IF x.kind = "nan" THEN NaN
  ELSE IF x.kind = "inf" THEN Fin(n, 1)
  ELSE IF x.num <= n THEN x ELSE Fin(n, 1)

\* n / x for an integer n >= 0 and an x that is an integer or NaN
DivNum(n, x) == IF x.kind = "nan" THEN NaN ELSE Div(n, x.num)

\* lines 93-124: what the loop computes for one item
Optimize(item) ==
  LET annualDemand == item.avg_usage_per_day * 365
      eoq == calculateEOQ(annualDemand, orderingCost, holdingCostPerUnit(item))
      safetyStock == calculateSafetyStock(item.avg_usage_per_day, item.restock_lead_time)
      reorderPoint == calculateReorderPoint(item.avg_usage_per_day,
                                            item.restock_lead_time, safetyStock)
      optimalOrderQty == MinNum(eoq, item.max_capacity)
      numberOfOrders == DivNum(annualDemand, optimalOrderQty)
      short == item.current_stock - item.avg_usage_per_day * item.restock_lead_time
  IN [eoq |-> eoq,
      reorder_point |-> reorderPoint,
      safety_stock |-> safetyStock,
      optimal_order_quantity |-> optimalOrderQty,
      \* of the annual cost the model keeps whether it is finite
      estimated_annual_cost |-> numberOfOrders.kind,
      number_of_orders |-> numberOfOrders,
      annual_demand |-> annualDemand,
      should_reorder |->
        (short <= 0 \/ 100 * short <=
           FloorRoot(SafetyStockSquared(item.avg_usage_per_day, item.restock_lead_time)))]

(* ---------------------- calculate-cost-optimization ------------------- *)
EOQInputs ==
  [run_all : BOOLEAN,
   item_id : {0, UnknownId} \cup {i.id : i \in inventory_items},
   single_prediction : {<<>>}]

CostOptimizationAuth(r) ==
  /\ Arrives(r)
  /\ \E hdr \in Headers, body \in EOQInputs :
       req' = [req EXCEPT ![r] =
                 Authenticate(@, "calculate-cost-optimization", hdr, body, "co_items")]
  /\ UNCHANGED <<schema, tables, faults>>

CostOptimizationItems(r) ==
  /\ req[r].pc = "co_items"
  /\ \E fault \in FaultChoices :
       LET q == Hit([req[r] EXCEPT !.reads = Append(@, "inventory_items")],
                    fault, "inventory_items")
           items == SeqOfSet(SelectItems(q.body))
       IN /\ Inject(fault)
          /\ req' = [req EXCEPT ![r] =
                IF fault \/ Len(items) = 0
                THEN Respond(q, Failure("No items found"))
                ELSE [q EXCEPT !.items = items, !.idx = 1, !.pc = "co_insert"]]
  /\ UNCHANGED <<schema, tables>>

OptimizationRow(r, item, o) ==
  [rid |-> r, item_id |-> item.id, eoq |-> o.eoq, reorder_point |-> o.reorder_point,
   safety_stock |-> o.safety_stock,
   optimal_order_quantity |-> o.optimal_order_quantity,
   estimated_annual_cost |-> o.estimated_annual_cost,
   parameters |-> [annual_demand |-> o.annual_demand,
                   number_of_orders |-> o.number_of_orders]]

Optimization(item, o) ==
  [item_id |-> item.id, item_name |-> item.item_name, eoq |-> o.eoq,
   reorder_point |-> o.reorder_point, safety_stock |-> o.safety_stock,
   optimal_order_quantity |-> o.optimal_order_quantity,
   estimated_annual_cost |-> o.estimated_annual_cost,
   current_stock |-> item.current_stock, should_reorder |-> o.should_reorder]

\* a loop that reports an item whether or not its row was stored
PushOptimizationAlways(optimizations, insertError, entry) == Append(optimizations, entry)

\* lines 147-159: if (!insertError) optimizations.push({...})
PushOptimization(optimizations, insertError, entry) ==
  IF insertError THEN optimizations ELSE Append(optimizations, entry)

\* lines 92-174: one turn of the loop, and the response after the last one
CostOptimizationInsert(r) ==
  /\ req[r].pc = "co_insert"
  /\ \E fault \in FaultChoices :
          LET q == Hit(req[r], fault, "cost_optimization")
              item == q.items[q.idx]
              o == Optimize(item)
              optimizations == PushOptimization(q.optimizations, fault,
                                                Optimization(item, o))
              n == [q EXCEPT !.optimizations = optimizations, !.idx = @ + 1,
                             !.log = IF fault THEN @
                                     ELSE Append(@, <<"cost_optimization", item.id>>)]
          IN /\ Inject(fault)
             /\ cost_optimization' =
                  IF fault THEN cost_optimization
                  ELSE cost_optimization \cup {OptimizationRow(r, item, o)}
             /\ req' = [req EXCEPT ![r] =
                  IF n.idx <= Len(n.items) THEN n
                  ELSE Respond(n, [Response(200) EXCEPT
                                     !.optimizations = optimizations,
                                     !.total_items = Len(optimizations)])]
  /\ UNCHANGED <<schema, inventory_items, model_registry, predictions,
                 prediction_history, alerts_history>>

(* ------------------------ Cost Optimization page ---------------------- *)
\* fetchOptimizations: each stored row joined with its inventory item, the flag
\* derived as current_stock <= opt.reorder_point
fetchOptimizations ==
  UNION {{[item_id |-> opt.item_id, rid |-> opt.rid,
           reorder_point |-> opt.reorder_point,
           current_stock |-> i.current_stock,
           should_reorder |-> (i.current_stock <= opt.reorder_point)] :
            i \in {i \in inventory_items : i.id = opt.item_id}} :
         opt \in cost_optimization}

(* ---------------------------- seed-sample-data ------------------------ *)
\* an id the store has not handed out
FreshId(rows) == IF rows = {} THEN 1 ELSE SetMax({x.id : x \in rows}) + 1

RECURSIVE UpsertItems(_, _)
\* INSERT ... ON CONFLICT (item_name) DO UPDATE, entry by entry: the rows the
\* statement returns, in the order of the payload
UpsertItems(rows, payload) ==
  IF payload = <<>> THEN <<>>
  ELSE LET e == Head(payload)
           old == {x \in rows : x.item_name = e.item_name}
           row == [e EXCEPT !.id = IF old = {} THEN FreshId(rows)
                                   ELSE (CHOOSE x \in old : TRUE).id]
       IN <<row>> \o UpsertItems((rows \ old) \cup {row}, Tail(payload))

\* whether the store accepts an upsert on this conflict target
Arbiter(target) == target \in schema.unique

\* lines 14-124: the handler reads no authorization header
SeedInventory(r) ==
  /\ Arrives(r)
  /\ \E hdr \in Headers, fault \in FaultChoices :
       LET q == Hit([req[r] EXCEPT !.fn = "seed-sample-data", !.method = "POST",
                                   !.hdr = hdr], fault, "inventory_items")
           accepted == /\ ~fault
                       /\ Arbiter("inventory_items.item_name")
                       /\ \A k \in 1..Len(Catalogue) :
                            Catalogue[k].item_type \in schema.item_types
           insertedItems == UpsertItems(inventory_items, Catalogue)
       IN /\ Inject(fault)
          /\ IF accepted
             THEN /\ inventory_items' =
                       {x \in inventory_items :
                          \A k \in 1..Len(Catalogue) : x.item_name # Catalogue[k].item_name}
                       \cup Range(insertedItems)
                  /\ req' = [req EXCEPT ![r] =
                       [q EXCEPT !.insertedItems = insertedItems, !.pc = "sd_model",
                                 !.log = Append(@, <<"inventory_items", 0>>)]]
             ELSE /\ UNCHANGED inventory_items
                  /\ req' = [req EXCEPT ![r] = Respond(q, Failure(StoreError))]
  /\ UNCHANGED <<schema, model_registry, predictions, prediction_history,
                 alerts_history, cost_optimization>>

SeedVersion == "v1.0.0"

\* a created_at later than every one in the table
Now(rows) == IF rows = {} THEN 1 ELSE SetMax({x.created_at : x \in rows}) + 1

\* the row the model upsert leaves, keyed on model_version
UpsertModel(rows) ==
  LET old == {m \in rows : m.model_version = SeedVersion}
  IN IF old = {} THEN Model(FreshId(rows), SeedVersion, TRUE, Now(rows))
     ELSE [(CHOOSE m \in old : TRUE) EXCEPT !.is_active = TRUE]

\* lines 126-164
SeedModel(r) ==
  /\ req[r].pc = "sd_model"
  /\ \E fault \in FaultChoices :
       LET q == Hit(req[r], fault, "model_registry")
           modelData == UpsertModel(model_registry)
       IN /\ Inject(fault)
          /\ IF ~fault /\ Arbiter("model_registry.model_version")
             THEN /\ model_registry' =
                       {m \in model_registry : m.model_version # SeedVersion}
                       \cup {modelData}
                  /\ req' = [req EXCEPT ![r] =
                       [q EXCEPT !.modelData = <<modelData>>, !.pc = "sd_history",
                                 !.log = Append(@, <<"model_registry", 0>>)]]
             ELSE /\ UNCHANGED model_registry
                  /\ req' = [req EXCEPT ![r] = Respond(q, Failure(StoreError))]
  /\ UNCHANGED <<schema, inventory_items, predictions, prediction_history,
                 alerts_history, cost_optimization>>

\* lines 169-171 and 207-209: the seeder's own demand formulas
SeedPrediction(item) ==
  [estimated_demand |-> item.avg_usage_per_day * item.restock_lead_time,
   inventory_shortfall |-> Max(0, item.min_required - item.current_stock),
   replenishment_needs |-> Max(0, item.max_capacity - item.current_stock)]

\* lines 173-191 (confidence_score, a random number, is left out)
SeedHistoryRow(r, item, model) ==
  [rid |-> r, item_id |-> item.id, model_version_id |-> model.id,
   predicted_demand |-> SeedPrediction(item).estimated_demand,
   feature_values |-> [avg_usage_per_day |-> item.avg_usage_per_day,
                       restock_lead_time |-> item.restock_lead_time,
                       current_stock |-> item.current_stock,
                       shortfall |-> SeedPrediction(item).inventory_shortfall,
                       replenishment_needs |-> SeedPrediction(item).replenishment_needs,
                       unit_cost |-> item.unit_cost],
   feature_contributions |-> [Avg_Usage_Per_Day |-> 45, Restock_Lead_Time |-> 30,
                              Current_Stock |-> 15],
   created_by |-> ""]

\* a history step that does not read the error of its insert
SeedHistoryUnchecked(r) ==
  /\ req[r].pc = "sd_history"
  /\ \E fault \in FaultChoices :
       LET q == Hit(req[r], fault, "prediction_history")
       IN /\ Inject(fault)
          /\ prediction_history' =
               IF fault THEN prediction_history
               ELSE prediction_history \cup
                      {SeedHistoryRow(r, q.insertedItems[k], q.modelData[1]) :
                         k \in 1..Len(q.insertedItems)}
          /\ req' = [req EXCEPT ![r] =
               [q EXCEPT !.pc = "sd_predictions",
                         !.log = IF fault THEN @
                                 ELSE Append(@, <<"prediction_history", 0>>)]]
  /\ UNCHANGED <<schema, inventory_items, model_registry, predictions,
                 alerts_history, cost_optimization>>

\* lines 166-203
SeedHistory(r) ==
  /\ req[r].pc = "sd_history"
  /\ \E fault \in FaultChoices :
       LET q == Hit(req[r], fault, "prediction_history")
       IN /\ Inject(fault)
          /\ IF ~fault
             THEN /\ prediction_history' = prediction_history \cup
                       {SeedHistoryRow(r, q.insertedItems[k], q.modelData[1]) :
                          k \in 1..Len(q.insertedItems)}
                  /\ req' = [req EXCEPT ![r] =
                       [q EXCEPT !.pc = "sd_predictions",
                                 !.log = Append(@, <<"prediction_history", 0>>)]]
             ELSE /\ UNCHANGED prediction_history
                  /\ req' = [req EXCEPT ![r] = Respond(q, Failure(StoreError))]
  /\ UNCHANGED <<schema, inventory_items, model_registry, predictions,
                 alerts_history, cost_optimization>>

\* the predictions row an upsert keyed on item_id leaves for one item
UpsertPrediction(r, rows, item) ==
  LET old == {p \in rows : p.item_id = item.id}
      p == SeedPrediction(item)
  IN IF old = {}
     THEN [rid |-> r, item_id |-> item.id, estimated_demand |-> p.estimated_demand,
           replenishment_needs |-> p.replenishment_needs,
           inventory_shortfall |-> p.inventory_shortfall, predicted_by |-> ""]
     ELSE [(CHOOSE x \in old : TRUE) EXCEPT
             !.estimated_demand = p.estimated_demand,
             !.replenishment_needs = p.replenishment_needs,
             !.inventory_shortfall = p.inventory_shortfall]

\* a filter that lets every item through
lowStockItemsAll(insertedItems) == insertedItems

\* line 232
lowStockItems(insertedItems) ==
  SelectSeq(insertedItems, LAMBDA item : item.current_stock < item.min_required)

SeedStats(q) ==
  [inventory_items |-> Len(q.insertedItems), predictions |-> Len(q.insertedItems),
   alerts |-> Len(lowStockItems(q.insertedItems))]

SeedResponse(q) == [Response(200) EXCEPT !.stats = <<SeedStats(q)>>]

\* lines 205-228, and the response where no item is low on stock
SeedPredictions(r) ==
  /\ req[r].pc = "sd_predictions"
  /\ \E fault \in FaultChoices :
       LET q == Hit(req[r], fault, "predictions")
           ids == {q.insertedItems[k].id : k \in 1..Len(q.insertedItems)}
       IN /\ Inject(fault)
          /\ IF ~fault /\ Arbiter("predictions.item_id")
             THEN /\ predictions' =
                       {p \in predictions : p.item_id \notin ids} \cup
                       {UpsertPrediction(r, predictions, q.insertedItems[k]) :
                          k \in 1..Len(q.insertedItems)}
                  /\ req' = [req EXCEPT ![r] =
                       IF Len(lowStockItems(q.insertedItems)) > 0
                       THEN [q EXCEPT !.pc = "sd_alerts",
                                      !.log = Append(@, <<"predictions", 0>>)]
                       ELSE Respond([q EXCEPT !.log = Append(@, <<"predictions", 0>>)],
                                    SeedResponse(q))]
             ELSE /\ UNCHANGED predictions
                  /\ req' = [req EXCEPT ![r] = Respond(q, Failure(StoreError))]
  /\ UNCHANGED <<schema, inventory_items, model_registry, prediction_history,
                 alerts_history, cost_optimization>>

\* lines 235-246
SeedAlertRow(r, item) ==
  [rid |-> r, alert_type |-> "low_stock",
   severity |-> IF 2 * item.current_stock < item.min_required THEN "critical"
                ELSE "warning",
   item_id |-> item.id,
   metadata |-> [current_stock |-> item.current_stock,
                 min_required |-> item.min_required,
                 shortfall |-> item.min_required - item.current_stock]]

\* lines 231-271
SeedAlerts(r) ==
  /\ req[r].pc = "sd_alerts"
  /\ \E fault \in FaultChoices :
       LET q == Hit(req[r], fault, "alerts_history")
           low == lowStockItems(q.insertedItems)
       IN /\ Inject(fault)
          /\ IF ~fault
             THEN /\ alerts_history' = alerts_history \cup
                       {SeedAlertRow(r, low[k]) : k \in 1..Len(low)}
                  /\ req' = [req EXCEPT ![r] =
                       Respond([q EXCEPT !.log = Append(@, <<"alerts_history", 0>>)],
                               SeedResponse(q))]
             ELSE /\ UNCHANGED alerts_history
                  /\ req' = [req EXCEPT ![r] = Respond(q, Failure(StoreError))]
  /\ UNCHANGED <<schema, inventory_items, model_registry, predictions,
                 prediction_history, cost_optimization>>

(* ------------------------------ behaviours ---------------------------- *)
Next ==
  \E r \in Requests :
    \/ Preflight(r)
    \/ RunPredictionsAuth(r)
    \/ RunPredictionsModel(r)
    \/ RunPredictionsItems(r)
    \/ RunPredictionsInsert(r)
    \/ RunPredictionsHistory(r)
    \/ RunPredictionsAlerts(r)
    \/ CostOptimizationAuth(r)
    \/ CostOptimizationItems(r)
    \/ CostOptimizationInsert(r)
    \/ SeedInventory(r)
    \/ SeedModel(r)
    \/ SeedHistory(r)
    \/ SeedPredictions(r)
    \/ SeedAlerts(r)

Spec == Init /\ [][Next]_vars

SpecConcurrent == InitConcurrent /\ [][Next]_vars

\* field values of the items the optimizer is run over: zero and positive
\* usage, unit cost (in cents), capacity and lead time, and stocks on either
\* side of a reorder point that is not a whole number
OptimizerUsages == {0, 3, 8}
OptimizerCosts == {0, 250, 100000}
OptimizerCapacities == {0, 5, 400}
OptimizerLeadTimes == {0, 4, 7}
OptimizerStocks == {0, 23, 24}

\* one request, over two inventory rows that differ in avg_usage_per_day only
InitOptimizer ==
  /\ schema = Migrated
  /\ \E a \in OptimizerUsages, b \in OptimizerUsages, cost \in OptimizerCosts,
        cap \in OptimizerCapacities, lead \in OptimizerLeadTimes,
        stock \in OptimizerStocks :
        /\ a <= b
        /\ inventory_items =
             { Item(1, "Gauze", "Consumable", stock, 20, cap, cost, a, lead),
               Item(2, "Gauze", "Consumable", stock, 20, cap, cost, b, lead) }
  /\ model_registry = {InitialModel}
  /\ EmptyDerived
  /\ req = [r \in Requests |-> IF r = 1 THEN NewRequest
                                         ELSE [NewRequest EXCEPT !.pc = "off"]]

NextOptimizer ==
  \E r \in Requests :
    \/ Preflight(r)
    \/ CostOptimizationAuth(r)
    \/ CostOptimizationItems(r)
    \/ CostOptimizationInsert(r)

SpecOptimizer == InitOptimizer /\ [][NextOptimizer]_vars

\* field values of the item the estimator is run over: zero and positive
\* minimum, capacity, usage and lead time, and stocks on either side of the
\* minimum (20) and of the estimated demand (3 * 7)
EstimatorStocks == {0, 5, 20, 21}
EstimatorMinimums == {0, 20}
EstimatorCapacities == {0, 40}
EstimatorUsages == {0, 3, 7}
EstimatorLeadTimes == {0, 7}

\* one request, over one inventory row
InitEstimator ==
  /\ schema = Migrated
  /\ \E stock \in EstimatorStocks, minreq \in EstimatorMinimums,
        cap \in EstimatorCapacities, usage \in EstimatorUsages,
        lead \in EstimatorLeadTimes :
        inventory_items =
          { Item(1, "Gauze", "Consumable", stock, minreq, cap, 250, usage, lead) }
  /\ model_registry = {InitialModel}
  /\ EmptyDerived
  /\ req = [r \in Requests |-> IF r = 1 THEN NewRequest
                                         ELSE [NewRequest EXCEPT !.pc = "off"]]

NextEstimator ==
  \E r \in Requests :
    \/ Preflight(r)
    \/ RunPredictionsAuth(r)
    \/ RunPredictionsModel(r)
    \/ RunPredictionsItems(r)
    \/ RunPredictionsInsert(r)
    \/ RunPredictionsHistory(r)
    \/ RunPredictionsAlerts(r)

SpecEstimator == InitEstimator /\ [][NextEstimator]_vars

(* ----------------------------- properties ------------------------------ *)
Done(r) == req[r].pc = "done"
Posted(r) == req[r].method = "POST"
Ran(r, fn) == Posted(r) /\ req[r].fn = fn
TheResponse(r) == req[r].response[1]
Logged(r, table, id) == <<table, id>> \in Range(req[r].log)
RowsOf(r) ==
  {x \in predictions \cup prediction_history \cup alerts_history \cup cost_optimization :
     x.rid = r}
\* the items of a run-predictions request whose response entry exists
Persisted(r) ==
  {k \in 1..Len(req[r].items) :
     \E j \in 1..Len(req[r].predictions) : req[r].predictions[j].item_id = req[r].items[k].id}
AlertsFor(r, id) == {j \in 1..Len(req[r].alerts) : req[r].alerts[j].item_id = id}

\* C1: a request of any of the three handlers whose authorization header is
\* missing or whose token is invalid ends with the missing-authorization or
\* Unauthorized error and has no write applied to the store.
C1_UnauthorizedNeverWrites ==
  \A r \in Requests :
    (Posted(r) /\ req[r].hdr \in {"none", "invalid"}) =>
      /\ req[r].log = <<>>
      /\ Done(r)
      /\ TheResponse(r).status = 500
      /\ TheResponse(r).error \in {"Missing authorization header", "Unauthorized"}

\* the insert into predictions of the k-th loaded item was refused
InsertFailed(r, k) ==
  k < req[r].idx /\ ~Logged(r, "predictions", req[r].items[k].id)

\* C2: an item of run-predictions whose predictions insert fails gets no
\* history row, no response entry and no alert; the loop goes on to every
\* later item, the request ends 200, and the rows written for the other
\* items stay.
C2_SkipOnFailure ==
  \A r \in Requests :
    Ran(r, "run-predictions") =>
      /\ \A k \in 1..Len(req[r].items) :
           InsertFailed(r, k) =>
             LET id == req[r].items[k].id
             IN /\ ~\E x \in RowsOf(r) : x.item_id = id
                /\ k \notin Persisted(r)
                /\ AlertsFor(r, id) = {}
                /\ ~Logged(r, "prediction_history", id)
      /\ (Done(r) /\ Len(req[r].items) > 0) =>
           /\ TheResponse(r).status = 200
           /\ TheResponse(r).predictions = req[r].predictions
           /\ req[r].idx = Len(req[r].items) + 1
           /\ \A k \in 1..Len(req[r].items) :
                ~InsertFailed(r, k) =>
                  /\ k \in Persisted(r)
                  /\ \E x \in predictions : x.rid = r /\ x.item_id = req[r].items[k].id

C2_Witness ==
  \E r \in Requests :
    /\ Ran(r, "run-predictions") /\ Done(r)
    /\ Len(req[r].items) = 2
    /\ InsertFailed(r, 1)
    /\ ~InsertFailed(r, 2)
    /\ TheResponse(r).status = 200
    /\ Len(TheResponse(r).predictions) = 1

\* C3: once every request was a run of the seeder and the store met no
\* transient fault, the inventory holds exactly one row per catalogue name
\* and the registry exactly one row of version v1.0.0.
C3_SeedIdempotent ==
  ((\A r \in Requests : Done(r) /\ Ran(r, "seed-sample-data")) /\ faults = 0) =>
    /\ \A k \in 1..Len(Catalogue) :
         Cardinality({x \in inventory_items : x.item_name = Catalogue[k].item_name}) = 1
    /\ Cardinality({m \in model_registry : m.model_version = SeedVersion}) = 1

\* C4: the predictions table never holds two rows of one item.
C4_OnePredictionPerItem ==
  \A x, y \in predictions : x.item_id = y.item_id => x = y

\* the requests whose history insert for the item the store applied
HistoryWriters(id) ==
  {r \in Requests :
     \/ Logged(r, "prediction_history", id)
     \/ /\ Logged(r, "prediction_history", 0)
        /\ \E k \in 1..Len(req[r].insertedItems) : req[r].insertedItems[k].id = id}

HistoryCounts ==
  \A id \in {x.item_id : x \in prediction_history} \cup {i.id : i \in inventory_items} :
    Cardinality({x \in prediction_history : x.item_id = id}) =
      Cardinality(HistoryWriters(id))

\* C5: prediction_history is append-only: under any interleaving an item has
\* as many history rows as requests had a history insert for it applied, and
\* no step changes or removes a row.
C5_HistoryAppendOnly ==
  /\ []HistoryCounts
  /\ [][prediction_history \subseteq prediction_history']_vars

C5_Witness ==
  \E id \in {i.id : i \in inventory_items} :
    /\ \A r \in Requests :
         Done(r) /\ Ran(r, "run-predictions") /\ Logged(r, "prediction_history", id)
    /\ Cardinality({x \in prediction_history : x.item_id = id}) = MaxRequests

\* the loaded items of a request that stand at exactly a tenth of min_required
AtTenPercent(r) ==
  {k \in Persisted(r) :
     /\ req[r].items[k].min_required > 0
     /\ 10 * req[r].items[k].current_stock = req[r].items[k].min_required}

\* C6 as claimed: an item at exactly 10% of min_required gets a critical alert.
C6_TenPercentCritical ==
  \A r \in Requests :
    Ran(r, "run-predictions") =>
      \A k \in AtTenPercent(r) :
        \E j \in AlertsFor(r, req[r].items[k].id) : req[r].alerts[j].severity = "critical"

\* C6 as amended: an item at exactly 10% of min_required gets one alert, of
\* severity warning and type low_stock.
C6_TenPercentWarning ==
  \A r \in Requests :
    Ran(r, "run-predictions") =>
      \A k \in AtTenPercent(r) :
        /\ Cardinality(AlertsFor(r, req[r].items[k].id)) = 1
        /\ \A j \in AlertsFor(r, req[r].items[k].id) :
             /\ req[r].alerts[j].severity = "warning"
             /\ req[r].alerts[j].alert_type = "low_stock"

C6_Witness ==
  \E r \in Requests :
    /\ Ran(r, "run-predictions") /\ Done(r)
    /\ AtTenPercent(r) # {}
    /\ TheResponse(r).alerts_generated = 1
    /\ \E x \in alerts_history : x.rid = r /\ x.severity = "warning"

\* C7: for a persisted item with min_required > 0: below 10% one alert,
\* critical / critical_stock; from 10% to below 20% one alert, warning /
\* low_stock; from 20% on no alert.
C7_AlertClassification ==
  \A r \in Requests :
    Ran(r, "run-predictions") =>
      \A k \in Persisted(r) :
        LET item == req[r].items[k]
            mine == AlertsFor(r, item.id)
        IN item.min_required > 0 =>
             /\ (10 * item.current_stock < item.min_required) =>
                  /\ Cardinality(mine) = 1
                  /\ \A j \in mine : /\ req[r].alerts[j].severity = "critical"
                                     /\ req[r].alerts[j].alert_type = "critical_stock"
             /\ (10 * item.current_stock >= item.min_required /\
                 5 * item.current_stock < item.min_required) =>
                  /\ Cardinality(mine) = 1
                  /\ \A j \in mine : /\ req[r].alerts[j].severity = "warning"
                                     /\ req[r].alerts[j].alert_type = "low_stock"
             /\ (5 * item.current_stock >= item.min_required) => mine = {}

C7_Witness ==
  \E r \in Requests :
    /\ Ran(r, "run-predictions") /\ Done(r)
    /\ \E k \in Persisted(r) : /\ req[r].items[k].current_stock = 39
                               /\ AlertsFor(r, req[r].items[k].id) # {}
    /\ \E k \in Persisted(r) : /\ req[r].items[k].current_stock = 40
                               /\ AlertsFor(r, req[r].items[k].id) = {}
    /\ Cardinality({x \in alerts_history : x.rid = r}) = 1

\* C8: a run-predictions request whose model query finds no active row, or
\* errors, ends with 'No active model found' and writes no row, demo mode
\* included.
C8_NoActiveModel ==
  \A r \in Requests :
    (/\ Ran(r, "run-predictions")
     /\ "model_registry" \in Range(req[r].reads)
     /\ \/ \A m \in model_registry : ~m.is_active
        \/ "model_registry" \in Range(req[r].faulted)) =>
      /\ Done(r)
      /\ TheResponse(r).status = 500
      /\ TheResponse(r).error = "No active model found"
      /\ req[r].log = <<>>
      /\ RowsOf(r) = {}

C8_Witness ==
  \E r \in Requests :
    /\ Ran(r, "run-predictions") /\ Done(r)
    /\ req[r].body.single_prediction # <<>>
    /\ model_registry # {}
    /\ \A m \in model_registry : ~m.is_active
    /\ TheResponse(r).error = "No active model found"

\* C9: the model a run-predictions request uses is an active row than which
\* no active row is newer; the history rows of the request carry its id and
\* the response its version.
C9_NewestActiveModel ==
  \A r \in Requests :
    (Ran(r, "run-predictions") /\ "model_registry" \in Range(req[r].reads)
       /\ ~(Done(r) /\ TheResponse(r).status = 500 /\ req[r].activeModel = <<>>)) =>
      /\ Len(req[r].activeModel) = 1
      /\ LET m == req[r].activeModel[1]
         IN /\ m \in model_registry
            /\ m.is_active
            /\ \A n \in model_registry : n.is_active => n.created_at <= m.created_at
            /\ \A x \in prediction_history : x.rid = r => x.model_version_id = m.id
            /\ (Done(r) /\ TheResponse(r).status = 200) =>
                 TheResponse(r).model_version = m.model_version

C9_Witness ==
  \E r \in Requests :
    /\ Ran(r, "run-predictions") /\ Done(r)
    /\ TheResponse(r).status = 200
    /\ TheResponse(r).model_version = "v2.0.0"
    /\ Cardinality({m \in model_registry : m.is_active}) = 2
    /\ \E x \in prediction_history : x.rid = r /\ x.model_version_id = 2

\* C10: a run-predictions request that supplies single_prediction writes no
\* row and reads no inventory item, whatever run_all and item_id are, and
\* answers with the estimate of the supplied fields and the model version.
C10_DemoMode ==
  \A r \in Requests :
    (Ran(r, "run-predictions") /\ req[r].body.single_prediction # <<>>) =>
      /\ req[r].log = <<>>
      /\ RowsOf(r) = {}
      /\ "inventory_items" \notin Range(req[r].reads)
      /\ req[r].items = <<>>
      /\ (Done(r) /\ req[r].activeModel # <<>>) =>
           LET d == req[r].body.single_prediction[1]
               demand == d.avg_usage_per_day * d.restock_lead_time
               answer == TheResponse(r)
           IN /\ answer.status = 200
              /\ Len(answer.demo) = 1
              /\ answer.demo[1].estimated_demand = demand
              /\ answer.demo[1].inventory_shortfall = Max(0, d.min_required - d.current_stock)
              /\ answer.demo[1].replenishment_needs = Max(0, demand - d.current_stock)
              /\ answer.model_version = req[r].activeModel[1].model_version
              /\ answer.predictions = <<>>

C10_Witness ==
  \E r \in Requests :
    /\ Ran(r, "run-predictions") /\ Done(r)
    /\ req[r].body.single_prediction # <<>>
    /\ req[r].body.run_all
    /\ req[r].body.item_id # 0
    /\ inventory_items # {}
    /\ TheResponse(r).status = 200
    /\ TheResponse(r).demo # <<>>

\* the inventory holds no row that the item query of the request asks for
NothingToLoad(r) ==
  IF ~req[r].body.run_all /\ req[r].body.item_id # 0
  THEN \A i \in inventory_items : i.id # req[r].body.item_id
  ELSE inventory_items = {}

\* C11: a run-predictions (non-demo) or calculate-cost-optimization request
\* whose item query errors or returns no row ends with 'No items found' and
\* writes no predictions, prediction_history, alerts_history or
\* cost_optimization row.
C11_NoItemsFound ==
  \A r \in Requests :
    (/\ Ran(r, "run-predictions") \/ Ran(r, "calculate-cost-optimization")
     /\ "inventory_items" \in Range(req[r].reads)
     /\ NothingToLoad(r) \/ "inventory_items" \in Range(req[r].faulted)) =>
      /\ Done(r)
      /\ TheResponse(r).status = 500
      /\ TheResponse(r).error = "No items found"
      /\ req[r].items = <<>>
      /\ req[r].log = <<>>
      /\ RowsOf(r) = {}

C11_Witness ==
  \E r \in Requests :
    /\ Ran(r, "calculate-cost-optimization") /\ Done(r)
    /\ req[r].body.item_id = UnknownId
    /\ ~req[r].body.run_all
    /\ inventory_items # {}
    /\ req[r].faulted = <<>>
    /\ TheResponse(r).error = "No items found"

\* the items the loop of the optimizer has dealt with, in load order
Handled(r) == SubSeq(req[r].items, 1, req[r].idx - 1)
\* those of them whose cost_optimization row the store holds
Stored(r) ==
  SelectSeq(Handled(r),
            LAMBDA i : \E x \in cost_optimization : x.rid = r /\ x.item_id = i.id)

C12_Accounting ==
  \A r \in Requests :
    (Ran(r, "calculate-cost-optimization") /\ req[r].items # <<>>) =>
      /\ Len(req[r].optimizations) = Len(Stored(r))
      /\ \A k \in 1..Len(Stored(r)) :
           /\ req[r].optimizations[k].item_id = Stored(r)[k].id
           /\ Logged(r, "cost_optimization", Stored(r)[k].id)
           /\ Cardinality({x \in cost_optimization :
                             x.rid = r /\ x.item_id = Stored(r)[k].id}) = 1
      /\ Cardinality({x \in cost_optimization : x.rid = r}) = Len(Stored(r))
      /\ Done(r) =>
           /\ req[r].idx = Len(req[r].items) + 1
           /\ TheResponse(r).status = 200
           /\ TheResponse(r).optimizations = req[r].optimizations
           /\ TheResponse(r).total_items = Len(Stored(r))

\* C12: the optimizations list of calculate-cost-optimization holds exactly
\* the loaded items whose cost_optimization insert succeeded, in load order;
\* total_items is its length; each such item has one new row; a failed insert
\* does not stop the loop; no step changes or removes a cost_optimization row.
C12_SkipOnFailureAccounting ==
  /\ []C12_Accounting
  /\ [][cost_optimization \subseteq cost_optimization']_vars

C12_Witness ==
  \E r \in Requests :
    /\ Ran(r, "calculate-cost-optimization") /\ Done(r)
    /\ Len(req[r].items) = 2
    /\ req[r].faulted = <<"cost_optimization">>
    /\ ~Logged(r, "cost_optimization", req[r].items[1].id)
    /\ Logged(r, "cost_optimization", req[r].items[2].id)
    /\ TheResponse(r).total_items = 1
    /\ TheResponse(r).optimizations[1].item_id = req[r].items[2].id

\* the errors a handler throws into its catch block
Unauthenticated(r) ==
  /\ req[r].fn \in {"run-predictions", "calculate-cost-optimization"}
  /\ req[r].hdr \in {"none", "invalid"}
ModelMissing(r) ==
  /\ req[r].fn = "run-predictions"
  /\ "model_registry" \in Range(req[r].reads)
  /\ \/ \A m \in model_registry : ~m.is_active
     \/ "model_registry" \in Range(req[r].faulted)
ItemsMissing(r) ==
  /\ req[r].fn \in {"run-predictions", "calculate-cost-optimization"}
  /\ "inventory_items" \in Range(req[r].reads)
  /\ NothingToLoad(r) \/ "inventory_items" \in Range(req[r].faulted)
SeederThrew(r) ==
  /\ req[r].fn = "seed-sample-data"
  /\ req[r].faulted # <<>> \/ schema.unique = {}

\* C13: every error caught at a handler boundary ends the request with status
\* 500 and a body that carries the error message and nothing else;
\* authentication failures get no other status, and a request that met such
\* an error returns no success body.
C13_UniformErrorEnvelope ==
  \A r \in Requests :
    (Posted(r) /\ Done(r)) =>
      /\ TheResponse(r).status \in {200, 500}
      /\ (TheResponse(r).status = 500) <=> (TheResponse(r).error # "")
      /\ (TheResponse(r).status = 500) <=> ~TheResponse(r).success
      /\ (TheResponse(r).status = 500) =>
           TheResponse(r) = [Response(500) EXCEPT !.error = TheResponse(r).error,
                                                  !.success = FALSE]
      /\ (Unauthenticated(r) \/ ModelMissing(r) \/ ItemsMissing(r) \/ SeederThrew(r)) =>
           TheResponse(r).status = 500

C13_Witness ==
  \E r \in Requests :
    /\ Ran(r, "calculate-cost-optimization") /\ Done(r)
    /\ req[r].hdr = "invalid"
    /\ TheResponse(r).status = 500
    /\ TheResponse(r).error = "Unauthorized"

AlertRowsOf(r, id) == {x \in alerts_history : x.rid = r /\ x.item_id = id}

ItemOf(x) == CHOOSE i \in inventory_items : i.id = x.item_id
\* a finite number that is at most the integer n
AtMost(x, n) == x.kind = "fin" /\ x.num <= n * x.den
\* x <= y of two numbers (false where either is NaN)
Leq(x, y) ==
  /\ x.kind # "nan" /\ y.kind # "nan"
  /\ \/ y.kind = "inf"
     \/ x.kind = "fin" /\ y.kind = "fin" /\ x.num * y.den <= y.num * x.den

\* C16: for every item the optimizer processes (fields non-negative, zero
\* unit_cost, usage and capacity included) the optimal_order_quantity it
\* persists and returns is min(ceil(eoq), max_capacity) and at most
\* max_capacity.
C16_OrderQuantityWithinCapacity ==
  /\ \A x \in cost_optimization :
       /\ x.optimal_order_quantity \in {x.eoq, Fin(ItemOf(x).max_capacity, 1)}
       /\ AtMost(x.optimal_order_quantity, ItemOf(x).max_capacity)
       /\ Leq(x.optimal_order_quantity, x.eoq)
  /\ \A r \in Requests : \A k \in 1..Len(req[r].optimizations) :
       AtMost(req[r].optimizations[k].optimal_order_quantity,
              ItemOf(req[r].optimizations[k]).max_capacity)

\* C17: every eoq, optimal_order_quantity, number_of_orders and
\* estimated_annual_cost the optimizer persists or returns is a finite
\* number, zero unit_cost and zero order quantity included.
C17_ZeroDenominatorsGuarded ==
  /\ \A x \in cost_optimization :
       /\ x.eoq.kind = "fin"
       /\ x.optimal_order_quantity.kind = "fin"
       /\ x.parameters.number_of_orders.kind = "fin"
       /\ x.estimated_annual_cost = "fin"
  /\ \A r \in Requests : \A k \in 1..Len(req[r].optimizations) :
       /\ req[r].optimizations[k].eoq.kind = "fin"
       /\ req[r].optimizations[k].optimal_order_quantity.kind = "fin"
       /\ req[r].optimizations[k].estimated_annual_cost = "fin"

\* C18: in every entry the optimizer returns, should_reorder is true exactly
\* when current_stock <= avg_usage_per_day * restock_lead_time + safety stock
\* (1.65 * 0.2 * avg_usage_per_day * sqrt(restock_lead_time)); the
\* cost_optimization row has no should_reorder column.
C18_ShouldReorder ==
  /\ \A r \in Requests : \A k \in 1..Len(req[r].optimizations) :
       LET e == req[r].optimizations[k]
           item == ItemOf(e)
           over == item.current_stock - item.avg_usage_per_day * item.restock_lead_time
       IN /\ e.current_stock = item.current_stock
          /\ e.should_reorder <=>
               \/ over <= 0
               \/ (100 * over) * (100 * over) <=
                    33 * 33 * item.avg_usage_per_day * item.avg_usage_per_day
                      * item.restock_lead_time
  /\ \A x \in cost_optimization : "should_reorder" \notin DOMAIN x

C18_Witness ==
  \E r \in Requests :
    /\ Ran(r, "calculate-cost-optimization") /\ Done(r)
    /\ Len(TheResponse(r).optimizations) = 2
    /\ LET e == TheResponse(r).optimizations[1]
           f == TheResponse(r).optimizations[2]
       IN /\ e.current_stock = 24 /\ f.current_stock = 24
          /\ ItemOf(e).avg_usage_per_day = 3 /\ ItemOf(e).restock_lead_time = 7
          /\ ItemOf(f).avg_usage_per_day = 8
          /\ e.reorder_point = 24
          /\ ~e.should_reorder
          /\ f.should_reorder

\* C19: of two items that differ in avg_usage_per_day only, the one with the
\* smaller usage gets an eoq that is <= the eoq of the other.
C19_EOQMonotone ==
  \A x, y \in cost_optimization :
    (/\ x.rid = y.rid /\ x.item_id # y.item_id
     /\ ItemOf(x).avg_usage_per_day <= ItemOf(y).avg_usage_per_day) =>
      Leq(x.eoq, y.eoq)

\* C20: the estimated_demand of an item is avg_usage_per_day *
\* restock_lead_time exactly, and run-predictions writes that value to
\* predictions.estimated_demand and prediction_history.predicted_demand.
C20_EstimatedDemand ==
  \A r \in Requests :
    Ran(r, "run-predictions") =>
      /\ \A k \in 1..Len(req[r].items) :
           LET item == req[r].items[k]
               demand == item.avg_usage_per_day * item.restock_lead_time
           IN /\ \A x \in predictions :
                   (x.rid = r /\ x.item_id = item.id) => x.estimated_demand = demand
              /\ \A x \in prediction_history :
                   (x.rid = r /\ x.item_id = item.id) => x.predicted_demand = demand
              /\ \A j \in 1..Len(req[r].predictions) :
                   req[r].predictions[j].item_id = item.id =>
                     req[r].predictions[j].estimated_demand = demand
              /\ Logged(r, "predictions", item.id) =>
                   \E x \in predictions : x.rid = r /\ x.item_id = item.id
              /\ Logged(r, "prediction_history", item.id) =>
                   \E x \in prediction_history : x.rid = r /\ x.item_id = item.id
      /\ \A j \in 1..(IF Done(r) THEN Len(TheResponse(r).demo) ELSE 0) :
           TheResponse(r).demo[j].estimated_demand =
             req[r].body.single_prediction[1].avg_usage_per_day
               * req[r].body.single_prediction[1].restock_lead_time

C20_Witness ==
  \E r \in Requests :
    /\ Ran(r, "run-predictions") /\ Done(r)
    /\ \E x \in predictions : x.rid = r /\ x.estimated_demand = 160
    /\ \E x \in prediction_history : x.rid = r /\ x.predicted_demand = 160
    /\ \E i \in inventory_items : i.avg_usage_per_day = 8 /\ i.restock_lead_time = 20
    /\ \E j \in 1..Len(TheResponse(r).predictions) :
         TheResponse(r).predictions[j].estimated_demand = 160

\* what a run-predictions request has persisted or returned of the estimate
\* of an item: the predictions rows, the response entries, the demo answer
Outputs(item, x) ==
  [item |-> item, estimated_demand |-> x.estimated_demand,
   inventory_shortfall |-> x.inventory_shortfall,
   replenishment_needs |-> x.replenishment_needs]
EstimatesOf(r) ==
  UNION {{Outputs(req[r].items[k], x) :
            x \in {p \in predictions : p.rid = r /\ p.item_id = req[r].items[k].id}
                    \cup {req[r].predictions[j] :
                            j \in {j \in 1..Len(req[r].predictions) :
                                     req[r].predictions[j].item_id = req[r].items[k].id}}} :
         k \in 1..Len(req[r].items)}
    \cup (IF Done(r) /\ TheResponse(r).demo # <<>>
          THEN {Outputs(req[r].body.single_prediction[1], TheResponse(r).demo[1])}
          ELSE {})

\* C21: for an item with min_required > 0 the inventory_shortfall is
\* max(0, min_required - current_stock): never negative, and 0 exactly when
\* current_stock >= min_required.
C21_InventoryShortfall ==
  \A r \in Requests : \A e \in EstimatesOf(r) :
    e.item.min_required > 0 =>
      /\ e.inventory_shortfall >= 0
      /\ e.inventory_shortfall >= e.item.min_required - e.item.current_stock
      /\ \/ e.inventory_shortfall = 0
         \/ e.inventory_shortfall = e.item.min_required - e.item.current_stock
      /\ (e.inventory_shortfall = 0) <=> (e.item.current_stock >= e.item.min_required)

C21_Witness ==
  \E r \in Requests :
    /\ Done(r)
    /\ \E e \in EstimatesOf(r) :
         /\ e.item.min_required = 20 /\ e.item.current_stock = 21
         /\ e.inventory_shortfall = 0
    /\ \E p \in predictions : p.rid = r /\ p.inventory_shortfall = 0

\* C22: the replenishment_needs of an item is max(0, estimated_demand -
\* current_stock): never negative, and 0 exactly when current_stock >=
\* avg_usage_per_day * restock_lead_time.
C22_ReplenishmentNeeds ==
  \A r \in Requests : \A e \in EstimatesOf(r) :
    LET demand == e.item.avg_usage_per_day * e.item.restock_lead_time
    IN /\ e.replenishment_needs >= 0
       /\ e.replenishment_needs >= e.estimated_demand - e.item.current_stock
       /\ \/ e.replenishment_needs = 0
          \/ e.replenishment_needs = e.estimated_demand - e.item.current_stock
       /\ (e.replenishment_needs = 0) <=> (e.item.current_stock >= demand)

C22_Witness ==
  \E r \in Requests :
    /\ Done(r)
    /\ \E e \in EstimatesOf(r) :
         /\ e.item.avg_usage_per_day = 3 /\ e.item.restock_lead_time = 7
         /\ e.item.current_stock = 20
         /\ e.replenishment_needs = 1
    /\ \E p \in predictions : p.rid = r /\ p.replenishment_needs = 1

\* the feature contributions a run-predictions request has persisted or
\* returned for an item: the history rows, the response entries, the demo answer
ContributionsOf(r) ==
  UNION {{[item |-> req[r].items[k], contributions |-> x.feature_contributions] :
            x \in {h \in prediction_history : h.rid = r /\ h.item_id = req[r].items[k].id}
                    \cup {req[r].predictions[j] :
                            j \in {j \in 1..Len(req[r].predictions) :
                                     req[r].predictions[j].item_id = req[r].items[k].id}}} :
         k \in 1..Len(req[r].items)}
    \cup (IF Done(r) /\ TheResponse(r).demo # <<>>
          THEN {[item |-> req[r].body.single_prediction[1],
                 contributions |-> TheResponse(r).demo[1].feature_contributions]}
          ELSE {})

\* the number x is the finite ratio n / d
IsRatio(x, n, d) == x.kind = "fin" /\ x.den # 0 /\ d # 0 /\ x.num * d = n * x.den

\* C23: the feature contributions are avg_usage_per_day / d * 0.4,
\* restock_lead_time / d * 0.3, current_stock / c * 0.15 and min_required / c
\* * 0.15, with d the estimated demand or 1 when that is 0 and c the
\* max_capacity or 1 when that is 0: none is the result of a division by zero.
C23_ContributionsDefined ==
  \A r \in Requests : \A e \in ContributionsOf(r) :
    LET demand == e.item.avg_usage_per_day * e.item.restock_lead_time
        d == IF demand = 0 THEN 1 ELSE demand
        c == IF e.item.max_capacity = 0 THEN 1 ELSE e.item.max_capacity
    IN /\ IsRatio(e.contributions.avg_usage_per_day, 4 * e.item.avg_usage_per_day, 10 * d)
       /\ IsRatio(e.contributions.restock_lead_time, 3 * e.item.restock_lead_time, 10 * d)
       /\ IsRatio(e.contributions.current_stock, 15 * e.item.current_stock, 100 * c)
       /\ IsRatio(e.contributions.min_required, 15 * e.item.min_required, 100 * c)

C23_Witness ==
  \E r \in Requests :
    /\ Done(r)
    /\ \E h \in prediction_history :
         /\ h.rid = r
         /\ h.feature_values.avg_usage_per_day = 3
         /\ h.feature_values.restock_lead_time = 0
         /\ h.feature_values.current_stock = 20
         /\ \A i \in inventory_items : i.max_capacity = 0
         /\ IsRatio(h.feature_contributions.avg_usage_per_day, 12, 10)
         /\ IsRatio(h.feature_contributions.current_stock, 3, 1)

\* the store calls a request has made: its queries, its applied writes and the
\* calls that met a fault
Touched(r) ==
  req[r].reads # <<>> \/ req[r].log # <<>> \/ req[r].faulted # <<>> \/ RowsOf(r) # {}

\* C24: in run-predictions and calculate-cost-optimization the token is
\* accepted before any table is read or written, the items are loaded before
\* any derived row is written, and run-predictions inserts its batch of alerts
\* only once every loaded item has been processed.
C24_StepOrdering ==
  \A r \in Requests :
    (Ran(r, "run-predictions") \/ Ran(r, "calculate-cost-optimization")) =>
      /\ Touched(r) => (req[r].hdr = "valid" /\ req[r].user = UserId)
      /\ (req[r].log # <<>> \/ RowsOf(r) # {}) =>
           /\ "inventory_items" \in Range(req[r].reads)
           /\ req[r].items # <<>>
      /\ (\/ Logged(r, "alerts_history", 0)
          \/ "alerts_history" \in Range(req[r].faulted)
          \/ \E a \in alerts_history : a.rid = r) =>
           req[r].idx = Len(req[r].items) + 1

C24_Witness ==
  \E r \in Requests :
    /\ Ran(r, "run-predictions")
    /\ Done(r)
    /\ TheResponse(r).status = 200
    /\ Len(req[r].items) >= 2
    /\ Logged(r, "alerts_history", 0)
    /\ \E a \in alerts_history : a.rid = r /\ a.item_id = req[r].items[1].id
    /\ \E p \in predictions : p.rid = r /\ p.item_id = req[r].items[2].id

\* the item query of the request was answered by the store
Loaded(r) ==
  /\ "inventory_items" \in Range(req[r].reads)
  /\ "inventory_items" \notin Range(req[r].faulted)

\* C25: run-predictions and calculate-cost-optimization select the one item
\* whose id is item_id exactly when run_all is false or absent and an item_id
\* is given, and every inventory item otherwise.
C25_ItemSelection ==
  \A r \in Requests :
    ((Ran(r, "run-predictions") \/ Ran(r, "calculate-cost-optimization")) /\ Loaded(r)) =>
      LET one == ~req[r].body.run_all /\ req[r].body.item_id # 0
          selected == IF one
                      THEN {i \in inventory_items : i.id = req[r].body.item_id}
                      ELSE inventory_items
      IN /\ Range(req[r].items) = selected
         /\ Len(req[r].items) = Cardinality(selected)
         /\ one => Len(req[r].items) <= 1
         /\ (selected = {}) <=> (Done(r) /\ TheResponse(r).error = "No items found")

C25_Witness ==
  \E r \in Requests :
    /\ Ran(r, "calculate-cost-optimization")
    /\ Loaded(r)
    /\ req[r].body.run_all
    /\ \E i \in inventory_items : i.id = req[r].body.item_id
    /\ Len(req[r].items) >= 2
    /\ Range(req[r].items) = inventory_items

\* the items of a run-predictions request that have been through lines 157-209
Classified(r) ==
  {req[r].items[k] : k \in Persisted(r)}

\* C26: for an item whose min_required is 0, run-predictions generates no
\* alert, whatever its current_stock (0 included): the percentage over a zero
\* minimum is classified neither critical nor warning.
C26_NoAlertWithoutMinimum ==
  \A r \in Requests :
    Ran(r, "run-predictions") =>
      \A item \in Range(req[r].items) :
        item.min_required = 0 =>
          /\ AlertsFor(r, item.id) = {}
          /\ ~\E a \in alerts_history : a.rid = r /\ a.item_id = item.id

C26_Witness ==
  \E r \in Requests :
    /\ Ran(r, "run-predictions")
    /\ Done(r)
    /\ TheResponse(r).status = 200
    /\ TheResponse(r).alerts_generated = 0
    /\ \E item \in Classified(r) :
         /\ item.min_required = 0
         /\ item.current_stock = 0
         /\ stockPercentage(item) = NaN

\* the entries of the response's predictions whose item stands below 20 % of
\* its minimum
BelowWarning(r) ==
  {j \in 1..Len(TheResponse(r).predictions) :
     LessThan(stockPercentage(ItemOf(TheResponse(r).predictions[j])), WarningThreshold)}

\* C27: in a run-predictions request at most one alert is generated per item;
\* alerts_generated is the number of entries of the response's predictions
\* whose stock percentage is below 20, hence at most the length of that list;
\* and alerts_generated is the number of alerts_history rows the request added.
C27_AlertAccounting ==
  \A r \in Requests :
    (Ran(r, "run-predictions") /\ Done(r) /\ TheResponse(r).status = 200
       /\ TheResponse(r).demo = <<>>) =>
      /\ \A i \in inventory_items : Cardinality(AlertsFor(r, i.id)) <= 1
      /\ TheResponse(r).alerts_generated = Cardinality(BelowWarning(r))
      /\ TheResponse(r).alerts_generated <= Len(TheResponse(r).predictions)
      /\ TheResponse(r).alerts_generated =
           Cardinality({a \in alerts_history : a.rid = r})

\* the write to the table for the item comes earlier in the request's log than
\* the write to the other table for the same item
WrittenBefore(r, table, other, id) ==
  \E m, n \in 1..Len(req[r].log) :
    /\ m < n
    /\ req[r].log[m] = <<table, id>>
    /\ req[r].log[n] = <<other, id>>

\* C28: run-predictions writes the prediction_history row of an item only
\* after the predictions insert of that item has succeeded in the same request,
\* and every item of the response's predictions has a predictions row and a
\* prediction_history row written by that request.
C28_PredictionHistoryPairing ==
  \A r \in Requests :
    Ran(r, "run-predictions") =>
      /\ \A h \in prediction_history :
           h.rid = r =>
             /\ \E p \in predictions : p.rid = r /\ p.item_id = h.item_id
             /\ WrittenBefore(r, "predictions", "prediction_history", h.item_id)
      /\ (Done(r) /\ TheResponse(r).status = 200) =>
           \A j \in 1..Len(TheResponse(r).predictions) :
             LET id == TheResponse(r).predictions[j].item_id
             IN /\ \E p \in predictions : p.rid = r /\ p.item_id = id
                /\ \E h \in prediction_history : h.rid = r /\ h.item_id = id

\* C29: the should_reorder of every entry the optimizer returns equals
\* current_stock <= reorder_point for the reorder_point of the same entry,
\* which is the value persisted in cost_optimization, and so equals the flag
\* the Cost Optimization page derives from the stored row while the item's
\* current_stock is unchanged.
C29_ReorderFlagConsistent ==
  \A r \in Requests : \A k \in 1..Len(req[r].optimizations) :
    LET e == req[r].optimizations[k]
    IN /\ e.should_reorder <=> (e.current_stock <= e.reorder_point)
       /\ \A x \in cost_optimization :
            (x.rid = r /\ x.item_id = e.item_id) => x.reorder_point = e.reorder_point
       /\ \A shown \in fetchOptimizations :
            (shown.rid = r /\ shown.item_id = e.item_id) =>
              /\ shown.current_stock = e.current_stock
              /\ shown.should_reorder <=> e.should_reorder

\* the tables the seeder writes, in the order of its statements
SeedOrder ==
  <<"inventory_items", "model_registry", "prediction_history", "predictions",
    "alerts_history">>

\* the rows the k-th statement of the seeder left are in the store
SeedStepStays(r, k) ==
  LET ids == {req[r].insertedItems[j].id : j \in 1..Len(req[r].insertedItems)}
  IN CASE k = 1 -> /\ Len(req[r].insertedItems) = Len(Catalogue)
                   /\ Range(req[r].insertedItems) \subseteq inventory_items
       [] k = 2 -> req[r].modelData # <<>> /\ req[r].modelData[1] \in model_registry
       [] k = 3 -> \A id \in ids : \E h \in prediction_history : h.rid = r /\ h.item_id = id
       [] k = 4 -> \A id \in ids : \E p \in predictions : p.item_id = id
       [] k = 5 -> \E a \in alerts_history : a.rid = r

====
